---- MODULE Spec2Model ----
(***************************************************************************)
(* Model of the Type Coercer of fixedlength: setFieldValue(field, value),  *)
(* which converts one slice of a fixed-width line into the value of one    *)
(* struct field, by the field's reflect.Kind.                              *)
(*                                                                         *)
(* A slice is a sequence of one-character strings.  Integers are kept as   *)
(* decimal magnitudes (sequences of digits 0..9, most significant first,   *)
(* no leading zero) so that the 32 and 64 bit limits are exact.            *)
(***************************************************************************)
EXTENDS Integers, Sequences, FiniteSets, TLC

\* Longest generated slice (every string over Alphabet up to this length).
MaxLen == 3

\* Deepest pointer nesting of a field type (0 = no pointer, 2 = **T).
MaxPtrDepth == 2

----------------------------------------------------------------------------
\* Characters and decimal magnitudes

DigitChars == <<"0", "1", "2", "3", "4", "5", "6", "7", "8", "9">>

IsDigit(c) == \E i \in 1..10 : DigitChars[i] = c

DigitVal(c) == (CHOOSE i \in 1..10 : DigitChars[i] = c) - 1

RECURSIVE StripZeros(_)
StripZeros(ds) ==
    IF ds # <<>> /\ Head(ds) = 0 THEN StripZeros(Tail(ds)) ELSE ds

RECURSIVE StripTrailingZeros(_)
StripTrailingZeros(ds) ==
    IF ds # <<>> /\ ds[Len(ds)] = 0
    THEN StripTrailingZeros(SubSeq(ds, 1, Len(ds) - 1))
    ELSE ds

\* Lexicographic comparison of two digit sequences read as decimal fractions
\* 0.d1d2d3... (a missing digit is 0): -1, 0 or 1.
RECURSIVE CmpFrac(_, _)
CmpFrac(a, b) ==
    IF a = <<>> /\ b = <<>> THEN 0
    ELSE LET x == IF a = <<>> THEN 0 ELSE Head(a)
             y == IF b = <<>> THEN 0 ELSE Head(b)
         IN IF x < y THEN -1
            ELSE IF x > y THEN 1
            ELSE CmpFrac(IF a = <<>> THEN a ELSE Tail(a),
                         IF b = <<>> THEN b ELSE Tail(b))

\* Comparison of two magnitudes without leading zeros: -1, 0 or 1.
CmpMag(a, b) ==
    IF Len(a) < Len(b) THEN -1
    ELSE IF Len(a) > Len(b) THEN 1
    ELSE CmpFrac(a, b)

\* 2 * ds for a magnitude ds > 0: a digit receives a carry exactly when the
\* digit after it is 5 or more.
Double(ds) ==
    LET n == Len(ds)
        low == [i \in 1..n |->
                    (2 * ds[i] + (IF i < n /\ ds[i + 1] >= 5 THEN 1 ELSE 0)) % 10]
    IN IF ds[1] >= 5 THEN <<1>> \o low ELSE low

\* base << n
RECURSIVE Shl(_, _)
Shl(base, n) == IF n = 0 THEN base ELSE Double(Shl(base, n - 1))

\* 1 << 16, 1 << 32, 1 << 48 (steps that keep the evaluation shallow)
Pow2x16 == Shl(<<1>>, 16)
Pow2x32 == Shl(Pow2x16, 16)
Pow2x48 == Shl(Pow2x32, 16)

\* 1 << n, for n up to 64
Pow2(n) ==
    IF n < 16 THEN Shl(<<1>>, n)
    ELSE IF n < 32 THEN Shl(Pow2x16, n - 16)
    ELSE IF n < 48 THEN Shl(Pow2x32, n - 32)
    ELSE Shl(Pow2x48, n - 48)

\* ds - 1 for a magnitude ds > 0.
RECURSIVE Pred(_)
Pred(ds) ==
    IF ds[Len(ds)] > 0
    THEN [ds EXCEPT ![Len(ds)] = @ - 1]
    ELSE Append(Pred(SubSeq(ds, 1, Len(ds) - 1)), 9)

BitSizes == {8, 10, 16, 32, 64}

\* cutoff := uint64(1 << uint(bitSize-1)) of strconv.ParseInt
IntCutoff == [b \in BitSizes |-> Pow2(b - 1)]

\* maxVal := uint64(1)<<uint(bitSize) - 1 of strconv.ParseUint
UintMax == [b \in BitSizes |-> StripZeros(Pred(Pow2(b)))]

----------------------------------------------------------------------------
\* strconv: the parsers setFieldValue calls

ErrSyntax == "strconv.ErrSyntax"
ErrRange == "strconv.ErrRange"

\* The digit loop of strconv.ParseUint(s, 10, bitSize): a non-digit is a
\* syntax error, and the first prefix whose value exceeds maxVal is a range
\* error (reported before any later character is looked at).
RECURSIVE ScanUint(_, _, _)
ScanUint(s, acc, maxVal) ==
    IF s = <<>> THEN [val |-> acc, err |-> "nil"]
    ELSE IF ~IsDigit(Head(s)) THEN [val |-> <<>>, err |-> ErrSyntax]
    ELSE LET n1 == StripZeros(Append(acc, DigitVal(Head(s))))
         IN IF CmpMag(n1, maxVal) > 0
            THEN [val |-> maxVal, err |-> ErrRange]
            ELSE ScanUint(Tail(s), n1, maxVal)

\* strconv.ParseUint(s, 10, bitSize): no sign, no underscore, no prefix.
ParseUint(s, bitSize) ==
    IF s = <<>> THEN [val |-> <<>>, err |-> ErrSyntax]
    ELSE ScanUint(s, <<>>, UintMax[bitSize])

\* An integer value: sign and magnitude (zero has no sign).
IntVal(neg, mag) == [neg |-> neg /\ mag # <<>>, mag |-> mag]

\* strconv.ParseInt(s, 10, bitSize): one optional sign, then ParseUint; the
\* magnitude must be < 2^(bitSize-1), or <= 2^(bitSize-1) when negative.
ParseInt(s, bitSize) ==
    IF s = <<>> THEN [val |-> IntVal(FALSE, <<>>), err |-> ErrSyntax]
    ELSE LET neg == Head(s) = "-"
             rest == IF Head(s) \in {"+", "-"} THEN Tail(s) ELSE s
             u == ParseUint(rest, bitSize)
             c == CmpMag(u.val, IntCutoff[bitSize])
         IN IF u.err = ErrSyntax
            THEN [val |-> IntVal(FALSE, <<>>), err |-> ErrSyntax]
            ELSE IF (~neg /\ c >= 0) \/ (neg /\ c > 0)
            THEN [val |-> IntVal(neg, IntCutoff[bitSize]), err |-> ErrRange]
            ELSE [val |-> IntVal(neg, u.val), err |-> "nil"]

\* Mutant of ParseBool: the tokens are matched whatever their letter case,
\* and the affirmative words are accepted.
ParseBoolAnyCase(s) ==
    IF s \in {<<"1">>, <<"t">>, <<"T">>, <<"T", "R", "U", "E">>,
              <<"t", "r", "u", "e">>, <<"T", "r", "u", "e">>,
              <<"t", "R", "U", "E">>, <<"y", "e", "s">>}
    THEN [val |-> TRUE, err |-> "nil"]
    ELSE IF s \in {<<"0">>, <<"f">>, <<"F">>, <<"F", "A", "L", "S", "E">>,
                   <<"f", "a", "l", "s", "e">>, <<"F", "a", "l", "s", "e">>,
                   <<"n", "o">>}
    THEN [val |-> FALSE, err |-> "nil"]
    ELSE [val |-> FALSE, err |-> "strconv.ErrSyntax"]

\* strconv.ParseBool: exactly these tokens.
ParseBool(s) ==
    IF s \in {<<"1">>, <<"t">>, <<"T">>, <<"T", "R", "U", "E">>,
              <<"t", "r", "u", "e">>, <<"T", "r", "u", "e">>}
    THEN [val |-> TRUE, err |-> "nil"]
    ELSE IF s \in {<<"0">>, <<"f">>, <<"F">>, <<"F", "A", "L", "S", "E">>,
                   <<"f", "a", "l", "s", "e">>, <<"F", "a", "l", "s", "e">>}
    THEN [val |-> FALSE, err |-> "nil"]
    ELSE [val |-> FALSE, err |-> ErrSyntax]

\* Lower-casing of the letters that occur in the tokens of ParseFloat
\* ("infinity", "nan", the exponent mark); other characters map to themselves.
UpperLetters == <<"I", "N", "F", "T", "Y", "A", "E">>
LowerLetters == <<"i", "n", "f", "t", "y", "a", "e">>

Lower(c) ==
    IF \E i \in 1..Len(UpperLetters) : UpperLetters[i] = c
    THEN LowerLetters[CHOOSE i \in 1..Len(UpperLetters) : UpperLetters[i] = c]
    ELSE c

LowerSeq(s) == [i \in 1..Len(s) |-> Lower(s[i])]

\* A float value: a canonical decimal digits * 10^exp (digits without leading
\* or trailing zero; zero is the empty digit sequence), or an infinity or NaN.
\* IEEE negative zero is not told apart from zero: it compares equal to it and
\* reflect.Value.IsZero reports it as zero.  Binary rounding is not modelled:
\* two different canonical decimals are two different values.
FloatZero == [class |-> "fin", neg |-> FALSE, digits |-> <<>>, exp |-> 0]
FloatInf(neg) == [class |-> "inf", neg |-> neg, digits |-> <<>>, exp |-> 0]
FloatNaN == [class |-> "nan", neg |-> FALSE, digits |-> <<>>, exp |-> 0]

\* Decimal limits of the two float formats: a numeral d.ddd * 10^maxExp with
\* digits >= over rounds to infinity (range error); one d.ddd * 10^minExp
\* with digits <= under rounds to zero (no error).
FloatLimits ==
    [b \in {32, 64} |->
        IF b = 32
        THEN [maxExp |-> 38, over |-> <<3,4,0,2,8,2,3,5,6,7,7,9,7,3,3,6,6>>,
              minExp |-> -46, under |-> <<7,0,0,6,4,9,2,3,2,1,6,2,4,0,8,5>>]
        ELSE [maxExp |-> 308, over |-> <<1,7,9,7,6,9,3,1,3,4,8,6,2,3,1,5,8>>,
              minExp |-> -324, under |-> <<2,4,7,0,3,2,8,2,2,9,2,0,6,2,3,2>>]]

\* Index of the first exponent mark of s, or 0.
ExpMark(s) ==
    IF \E i \in 1..Len(s) : Lower(s[i]) = "e"
    THEN CHOOSE i \in 1..Len(s) :
            Lower(s[i]) = "e" /\ \A j \in 1..(i - 1) : Lower(s[j]) # "e"
    ELSE 0

\* Index of the first "." of s, or 0.
DotMark(s) ==
    IF \E i \in 1..Len(s) : s[i] = "."
    THEN CHOOSE i \in 1..Len(s) : s[i] = "." /\ \A j \in 1..(i - 1) : s[j] # "."
    ELSE 0

DigitsOf(s) == [i \in 1..Len(s) |-> DigitVal(s[i])]

AllDigits(s) == \A i \in 1..Len(s) : IsDigit(s[i])

\* The exponent accumulation of readFloat: e = e*10 + d while e < 10000.
RECURSIVE ExpValue(_, _)
ExpValue(s, e) ==
    IF s = <<>> THEN e
    ELSE ExpValue(Tail(s), IF e < 10000 THEN e * 10 + DigitVal(Head(s)) ELSE e)

\* strconv's special(): "inf" and "infinity" with an optional sign, "nan"
\* without one, in any letter case.
Special(s) ==
    LET signed == s # <<>> /\ Head(s) \in {"+", "-"}
        rest == LowerSeq(IF signed THEN Tail(s) ELSE s)
    IN IF rest \in {<<"i", "n", "f">>, <<"i", "n", "f", "i", "n", "i", "t", "y">>}
       THEN [ok |-> TRUE, val |-> FloatInf(signed /\ Head(s) = "-")]
       ELSE IF ~signed /\ rest = <<"n", "a", "n">>
       THEN [ok |-> TRUE, val |-> FloatNaN]
       ELSE [ok |-> FALSE, val |-> FloatZero]

\* strconv.ParseFloat(s, bitSize) on a slice without hexadecimal mantissa and
\* without underscore (no slice of the model holds x, p or _): an optional
\* sign, digits with at most one ".", at least one digit, and an optional
\* exponent e[+-]digits; the whole slice must be consumed.
ParseFloat(s, bitSize) ==
    LET sp == Special(s)
        signed == s # <<>> /\ Head(s) \in {"+", "-"}
        neg == signed /\ Head(s) = "-"
        body == IF signed THEN Tail(s) ELSE s
        em == ExpMark(body)
        mant == IF em = 0 THEN body ELSE SubSeq(body, 1, em - 1)
        epart == IF em = 0 THEN <<>> ELSE SubSeq(body, em + 1, Len(body))
        esigned == epart # <<>> /\ Head(epart) \in {"+", "-"}
        edigits == IF esigned THEN Tail(epart) ELSE epart
        dm == DotMark(mant)
        ipart == IF dm = 0 THEN mant ELSE SubSeq(mant, 1, dm - 1)
        fpart == IF dm = 0 THEN <<>> ELSE SubSeq(mant, dm + 1, Len(mant))
        wellFormed ==
            /\ AllDigits(ipart) /\ AllDigits(fpart)
            /\ Len(ipart) + Len(fpart) > 0
            /\ em # 0 => (edigits # <<>> /\ AllDigits(edigits))
        e == IF em = 0 THEN 0
             ELSE IF esigned /\ Head(epart) = "-" THEN 0 - ExpValue(edigits, 0)
             ELSE ExpValue(edigits, 0)
        all == StripZeros(DigitsOf(ipart \o fpart))
        d == StripTrailingZeros(all)
        exp10 == e - Len(fpart) + (Len(all) - Len(d))
        sci == Len(d) + exp10 - 1
        lim == FloatLimits[bitSize]
    IN IF sp.ok THEN [val |-> sp.val, err |-> "nil"]
       ELSE IF ~wellFormed THEN [val |-> FloatZero, err |-> ErrSyntax]
       ELSE IF d = <<>> THEN [val |-> FloatZero, err |-> "nil"]
       ELSE IF sci > lim.maxExp \/ (sci = lim.maxExp /\ CmpFrac(d, lim.over) >= 0)
       THEN [val |-> FloatInf(neg), err |-> ErrRange]
       ELSE IF sci < lim.minExp \/ (sci = lim.minExp /\ CmpFrac(d, lim.under) <= 0)
       THEN [val |-> FloatZero, err |-> "nil"]
       ELSE [val |-> [class |-> "fin", neg |-> neg, digits |-> d, exp |-> exp10],
             err |-> "nil"]

----------------------------------------------------------------------------
\* Field types and field values

SignedKinds == {"int", "int8", "int16", "int32", "int64"}
UnsignedKinds == {"uint", "uint8", "uint16", "uint32", "uint64"}
FloatKinds == {"float32", "float64"}

\* The kinds setFieldValue has a case for, besides reflect.Ptr.
CaseKinds == SignedKinds \cup UnsignedKinds \cup FloatKinds \cup {"string", "bool"}

\* Kinds that reach the default branch ("slice" stands for every kind that is
\* neither listed above nor a struct nor uintptr: slice, map, array, ...).
DefaultKinds == {"uintptr", "struct", "slice"}

\* A type: its kind, whether it (through its pointer) implements Unmarshaler,
\* and for a pointer type the element type.  A pointer type has no methods.
BaseType(k, um) == [kind |-> k, um |-> um, elem |-> <<>>]
PtrTo(t) == [kind |-> "ptr", um |-> FALSE, elem |-> <<t>>]
Elem(t) == t.elem[1]

\* Types with an Unmarshal method: the struct of examples/custom, and named
\* types over the primitive kinds.
BaseTypes ==
    {BaseType(k, FALSE) : k \in CaseKinds \cup DefaultKinds}
        \cup {BaseType(k, TRUE) : k \in CaseKinds \cup {"struct"}}

RECURSIVE TypesAt(_)
TypesAt(d) == IF d = 0 THEN BaseTypes ELSE {PtrTo(t) : t \in TypesAt(d - 1)}

Types == UNION {TypesAt(d) : d \in 0..MaxPtrDepth}

RECURSIVE BaseOf(_)
BaseOf(t) == IF t.kind = "ptr" THEN BaseOf(Elem(t)) ELSE t

RECURSIVE Depth(_)
Depth(t) == IF t.kind = "ptr" THEN 1 + Depth(Elem(t)) ELSE 0

\* Values: an integer is IntVal, a float a float value, a string a sequence
\* of characters, a bool a BOOLEAN, a struct the date <<year, month, day>> it
\* embeds (examples/custom: PersonBirthDate{time.Time}), a slice a sequence,
\* and a pointer is Nil or <<pointee>>.
Nil == <<>>

\* The zero time.Time is January 1 of year 1.
ZeroDate == <<1, 1, 1>>

\* reflect.Zero(t)
ZeroValue(t) ==
    CASE t.kind \in SignedKinds \cup UnsignedKinds \cup {"uintptr"} -> IntVal(FALSE, <<>>)
      [] t.kind \in FloatKinds -> FloatZero
      [] t.kind = "string" -> <<>>
      [] t.kind = "bool" -> FALSE
      [] t.kind = "struct" -> ZeroDate
      [] t.kind = "slice" -> <<>>
      [] t.kind = "ptr" -> Nil

\* reflect.Value.IsZero
IsZero(t, v) == v = ZeroValue(t)

\* A value other than the zero value, for each non-pointer type.
NonZeroValue(t) ==
    CASE t.kind \in SignedKinds \cup UnsignedKinds \cup {"uintptr"} -> IntVal(FALSE, <<7>>)
      [] t.kind \in FloatKinds -> [class |-> "fin", neg |-> FALSE, digits |-> <<7>>, exp |-> 0]
      [] t.kind = "string" -> <<"a", "b">>
      [] t.kind = "bool" -> TRUE
      [] t.kind = "struct" -> <<1997, 3, 22>>
      [] t.kind = "slice" -> <<"x">>

\* What a field of type t may hold when setFieldValue is called: the caller
\* owns the record, which is fresh (zero) or holds an earlier value; a pointer
\* is nil or points to any such value.
RECURSIVE Seeds(_)
Seeds(t) ==
    IF t.kind = "ptr"
    THEN {Nil} \cup {<<v>> : v \in Seeds(Elem(t))}
    ELSE {ZeroValue(t), NonZeroValue(t)}

----------------------------------------------------------------------------
\* Errors

ErrInvalidBooleanValue == "fixedlength: invalid boolean value"
ErrInvalidIntValue == "fixedlength: invalid int value"
ErrInvalidFloatValue == "fixedlength: invalid float value"
ErrUnsupportedKind == "fixedlength: unsupported kind"

\* An error: the sentinel errors.Is finds in it ("none" for an error of a
\* custom decoder), the underlying error it carries, and the kind it names.
NoError == [sentinel |-> "nil", cause |-> "nil", kind |-> ""]

\* Mutant of Join: the sentinel is returned alone, the parser's error is lost.
JoinDropsCause(sentinel, cause) == [sentinel |-> sentinel, cause |-> "nil", kind |-> ""]

\* errors.Join(sentinel, err)
Join(sentinel, cause) == [sentinel |-> sentinel, cause |-> cause, kind |-> ""]

\* fmt.Errorf("%w: %s", ErrUnsupportedKind, field.Kind())
UnsupportedKind(kind) == [sentinel |-> ErrUnsupportedKind, cause |-> "nil", kind |-> kind]

\* The error time.Parse returns to the custom decoder.
ParseError == [sentinel |-> "none", cause |-> "time.ParseError", kind |-> ""]

----------------------------------------------------------------------------
\* The custom decoder of examples/custom

IsLeap(y) == y % 4 = 0 /\ (y % 100 # 0 \/ y % 400 = 0)

DaysIn(m, y) ==
    IF m = 2 THEN (IF IsLeap(y) THEN 29 ELSE 28)
    ELSE IF m \in {4, 6, 9, 11} THEN 30 ELSE 31

\* time.Parse("20060102", data): four digits of year, two of month, two of
\* day, nothing else, and a day that exists.
ParseDate(data) ==
    IF Len(data) # 8 \/ ~AllDigits(data) THEN [ok |-> FALSE, val |-> ZeroDate]
    ELSE LET y == DigitVal(data[1]) * 1000 + DigitVal(data[2]) * 100
                    + DigitVal(data[3]) * 10 + DigitVal(data[4])
             m == DigitVal(data[5]) * 10 + DigitVal(data[6])
             d == DigitVal(data[7]) * 10 + DigitVal(data[8])
         IN IF m \in 1..12 /\ d >= 1 /\ d <= DaysIn(m, y)
            THEN [ok |-> TRUE, val |-> <<y, m, d>>]
            ELSE [ok |-> FALSE, val |-> ZeroDate]

\* (*PersonBirthDate).Unmarshal: the receiver is assigned only on success.
Unmarshal(field, data) ==
    LET r == ParseDate(data)
    IN IF r.ok THEN [field |-> r.val, err |-> NoError]
       ELSE [field |-> field, err |-> ParseError]

----------------------------------------------------------------------------
\* setFieldValue

\* What one call leaves: the field, the error returned, and the slices that
\* were handed to an Unmarshal method (in order).
Ret(f, e, inv) == [field |-> f, err |-> e, invoked |-> inv]

\* The bitSize argument of each case.
ParseBitSize ==
    [k \in SignedKinds \cup UnsignedKinds |->
        CASE k \in {"int", "uint"} -> 10
          [] k \in {"int8", "uint8"} -> 8
          [] k \in {"int16", "uint16"} -> 16
          [] k \in {"int32", "uint32"} -> 32
          [] k \in {"int64", "uint64"} -> 64]

\* case reflect.Int, Int8, Int16, Int32, Int64
setInt(t, field, value) ==
    LET r == ParseInt(value, ParseBitSize[t.kind])
    IN IF r.err # "nil"
       THEN Ret(field, Join(ErrInvalidIntValue, r.err), <<>>)
       ELSE Ret(r.val, NoError, <<>>)

\* case reflect.Uint, Uint8, Uint16, Uint32, Uint64
setUint(t, field, value) ==
    LET r == ParseUint(value, ParseBitSize[t.kind])
    IN IF r.err # "nil"
       THEN Ret(field, Join(ErrInvalidIntValue, r.err), <<>>)
       ELSE Ret(IntVal(FALSE, r.val), NoError, <<>>)

\* case reflect.Float32, Float64
setFloat(t, field, value) ==
    LET r == ParseFloat(value, IF t.kind = "float32" THEN 32 ELSE 64)
    IN IF r.err # "nil"
       THEN Ret(field, Join(ErrInvalidFloatValue, r.err), <<>>)
       ELSE Ret(r.val, NoError, <<>>)

\* strings.TrimSpace on a slice.
RECURSIVE TrimSpace(_)
TrimSpace(s) ==
    IF s # <<>> /\ Head(s) = " " THEN TrimSpace(Tail(s))
    ELSE IF s # <<>> /\ s[Len(s)] = " " THEN TrimSpace(SubSeq(s, 1, Len(s) - 1))
    ELSE s

\* Mutant of setString: the padding is trimmed before the assignment.
setStringTrimmed(t, field, value) == Ret(TrimSpace(value), NoError, <<>>)

\* Mutant of setString: the slice is appended to what the field holds.
setStringAppends(t, field, value) == Ret(field \o value, NoError, <<>>)

\* case reflect.String
setString(t, field, value) == Ret(value, NoError, <<>>)

\* case reflect.Bool
setBool(t, field, value) ==
    LET r == ParseBool(value)
    IN IF r.err # "nil"
       THEN Ret(field, Join(ErrInvalidBooleanValue, r.err), <<>>)
       ELSE Ret(r.val, NoError, <<>>)

\* implementsUnmarshaler(field): the pointer to the field's type has the
\* Unmarshal method.
implementsUnmarshaler(t) == t.um

\* Mutant of setDefault: a kind without a case is skipped without an error.
setDefaultSkips(t, field, value) ==
    IF t.um
    THEN LET u == Unmarshal(field, value)
         IN Ret(u.field, u.err, <<value>>)
    ELSE Ret(field, NoError, <<>>)

\* default:
setDefault(t, field, value) ==
    IF implementsUnmarshaler(t)
    THEN LET u == Unmarshal(field, value)
         IN Ret(u.field, u.err, <<value>>)
    ELSE Ret(field, UnsupportedKind(t.kind), <<>>)

\* case reflect.Ptr, before the recursive call: a nil pointer is replaced by
\* a pointer to a new zero value.
ptrAlloc(t, field) == IF field = Nil THEN <<ZeroValue(Elem(t))>> ELSE field

\* field.CanSet(): a field setFieldValue can assign at all (SetInt, SetString
\* and Set panic otherwise) is settable, and so is what a pointer points to.
CanSet(field) == TRUE

\* Mutant of ptrSettle: the pointer is reset only if it was nil before (and
\* wasNil is read after the allocation).
ptrSettleIfWasNil(t, field, wasNil) ==
    IF IsZero(Elem(t), field[1]) /\ wasNil THEN ZeroValue(t)
    ELSE field

\* case reflect.Ptr, after a successful recursive call; wasNil was read after
\* the allocation.
ptrSettle(t, field, wasNil) ==
    IF IsZero(Elem(t), field[1]) /\ CanSet(field) THEN ZeroValue(t)
    ELSE IF wasNil /\ ~IsZero(Elem(t), field[1]) THEN field
    ELSE field

RECURSIVE setFieldValue(_, _, _)
setFieldValue(t, field, value) ==
    CASE t.kind \in SignedKinds -> setInt(t, field, value)
      [] t.kind \in UnsignedKinds -> setUint(t, field, value)
      [] t.kind \in FloatKinds -> setFloat(t, field, value)
      [] t.kind = "string" -> setString(t, field, value)
      [] t.kind = "bool" -> setBool(t, field, value)
      [] t.kind = "ptr" ->
            LET alloc == ptrAlloc(t, field)
                wasNil == alloc = Nil
                r == setFieldValue(Elem(t), alloc[1], value)
            IN IF r.err # NoError
               THEN Ret(<<r.field>>, r.err, r.invoked)
               ELSE Ret(ptrSettle(t, <<r.field>>, wasNil), NoError, r.invoked)
      [] OTHER -> setDefault(t, field, value)

----------------------------------------------------------------------------
\* The slices handed to setFieldValue

Alphabet == {"0", "1", "-", " ", "."}

Generated == UNION {[1..n -> Alphabet] : n \in 0..MaxLen}

\* Boolean tokens and near misses.
BoolSamples ==
    {<<"t">>, <<"T">>, <<"t", "r", "u", "e">>, <<"T", "R", "U", "E">>,
     <<"T", "r", "u", "e">>, <<"f">>, <<"F">>, <<"f", "a", "l", "s", "e">>,
     <<"F", "A", "L", "S", "E">>, <<"F", "a", "l", "s", "e">>,
     <<"t", "R", "U", "E">>, <<"y", "e", "s">>, <<"n", "o">>,
     <<" ", "t", "r", "u", "e">>, <<"t", "r", "u", "e", " ">>}

\* Numerals around the limit of each bit size.
IntSamples ==
    {<<"1", "2", "7">>, <<"1", "2", "8">>, <<"-", "1", "2", "8">>,
     <<"-", "1", "2", "9">>, <<"2", "5", "5">>, <<"2", "5", "6">>,
     <<"5", "1", "1">>, <<"5", "1", "2">>, <<"-", "5", "1", "2">>,
     <<"-", "5", "1", "3">>, <<"1", "0", "0", "0">>,
     <<"1", "0", "2", "3">>, <<"1", "0", "2", "4">>,
     <<"1", "0", "0", "0", "0", "0">>, <<"3", "2", "7", "6", "7">>,
     <<"3", "2", "7", "6", "8">>, <<"-", "3", "2", "7", "6", "8">>,
     <<"-", "3", "2", "7", "6", "9">>, <<"6", "5", "5", "3", "5">>,
     <<"6", "5", "5", "3", "6">>,
     <<"2", "1", "4", "7", "4", "8", "3", "6", "4", "7">>,
     <<"2", "1", "4", "7", "4", "8", "3", "6", "4", "8">>,
     <<"-", "2", "1", "4", "7", "4", "8", "3", "6", "4", "8">>,
     <<"-", "2", "1", "4", "7", "4", "8", "3", "6", "4", "9">>,
     <<"4", "2", "9", "4", "9", "6", "7", "2", "9", "5">>,
     <<"4", "2", "9", "4", "9", "6", "7", "2", "9", "6">>,
     <<"9", "2", "2", "3", "3", "7", "2", "0", "3", "6", "8", "5", "4", "7", "7", "5", "8", "0", "7">>,
     <<"9", "2", "2", "3", "3", "7", "2", "0", "3", "6", "8", "5", "4", "7", "7", "5", "8", "0", "8">>,
     <<"-", "9", "2", "2", "3", "3", "7", "2", "0", "3", "6", "8", "5", "4", "7", "7", "5", "8", "0", "8">>,
     <<"-", "9", "2", "2", "3", "3", "7", "2", "0", "3", "6", "8", "5", "4", "7", "7", "5", "8", "0", "9">>,
     <<"1", "8", "4", "4", "6", "7", "4", "4", "0", "7", "3", "7", "0", "9", "5", "5", "1", "6", "1", "5">>,
     <<"1", "8", "4", "4", "6", "7", "4", "4", "0", "7", "3", "7", "0", "9", "5", "5", "1", "6", "1", "6">>,
     <<"+", "7">>, <<"a", "b", "1", "2">>, <<" ", "1", "2">>,
     <<"1", "2", " ">>, <<"2", "0", "0", "a">>, <<"9", "9", "9", "a">>}

\* Float numerals, exponents, infinities and malformed ones.
FloatSamples ==
    {<<"1", "5", "5", "0", ".", "8", "5">>, <<"1", "e", "5">>,
     <<"1", "E", "-", "2">>, <<"1", "e", "3", "9">>,
     <<"1", "e", "3", "0", "9">>, <<"1", "e", "-", "4", "0", "0">>,
     <<"1", "e">>, <<"i", "n", "f">>, <<"-", "I", "n", "f">>,
     <<"N", "a", "N">>, <<"+", "n", "a", "n">>, <<"i", "n", "f", "i">>,
     <<"1", ".", "5", " ">>, <<" ", "1", ".", "5">>, <<"1", ".", "5">>,
     <<"+", ".", "5">>, <<"1", ".", "2", ".", "3">>}

\* Dates for the custom decoder.
DateSamples ==
    {<<"1", "9", "9", "7", "0", "3", "2", "2">>,
     <<"0", "0", "0", "1", "0", "1", "0", "1">>,
     <<"1", "9", "9", "7", "1", "3", "2", "2">>,
     <<"2", "0", "2", "3", "0", "2", "2", "9">>,
     <<"2", "0", "2", "4", "0", "2", "2", "9">>,
     <<"1", "9", "9", "7", "0", "3", "2">>}

Slices == Generated \cup BoolSamples \cup IntSamples \cup FloatSamples \cup DateSamples

----------------------------------------------------------------------------
\* The state machine: one field of a record, and the calls made on it

VARIABLES
    ftype,      \* the declared type of the field
    field,      \* what the field holds
    prev,       \* what it held when the last call started
    slice,      \* the slice of the last call
    err,        \* the error the last call returned
    prevErr,    \* the error the call before it returned
    invoked,    \* the slices the last call handed to Unmarshal
    calls       \* calls made on the field so far

vars == <<ftype, field, prev, slice, err, prevErr, invoked, calls>>

Init ==
    /\ ftype \in Types
    /\ field \in Seeds(ftype)
    /\ prev = field
    /\ slice = <<>>
    /\ err = NoError
    /\ prevErr = NoError
    /\ invoked = <<>>
    /\ calls = 0

\* One call setFieldValue(field, value).
Call(value) ==
    LET r == setFieldValue(ftype, field, value)
    IN /\ field' = r.field
       /\ err' = r.err
       /\ invoked' = r.invoked
       /\ prev' = field
       /\ prevErr' = err
       /\ slice' = value
       /\ calls' = calls + 1
       /\ UNCHANGED ftype

\* A line is decoded into the record: the field receives its slice.
Decode ==
    /\ calls = 0
    /\ \E value \in Slices : Call(value)

\* The same line is decoded into the same record once more.
DecodeAgain ==
    /\ calls = 1
    /\ Call(slice)

Next == Decode \/ DecodeAgain

Spec == Init /\ [][Next]_vars

----------------------------------------------------------------------------
\* What the claims speak of

\* The width an integer kind declares (int and uint are 64 bits wide on the
\* platforms the examples run on).
DeclaredBitSize ==
    [k \in SignedKinds \cup UnsignedKinds \cup {"uintptr"} |->
        CASE k \in {"int8", "uint8"} -> 8
          [] k \in {"int16", "uint16"} -> 16
          [] k \in {"int32", "uint32"} -> 32
          [] OTHER -> 64]

\* The value a well-formed slice denotes for a primitive kind, read at the
\* declared width, and whether the slice is well formed for that kind.
Denotes(k, s) ==
    CASE k \in SignedKinds -> ParseInt(s, DeclaredBitSize[k])
      [] k \in UnsignedKinds \cup {"uintptr"} ->
            LET u == ParseUint(s, DeclaredBitSize[k])
            IN [val |-> IntVal(FALSE, u.val), err |-> u.err]
      [] k = "float32" -> ParseFloat(s, 32)
      [] k = "float64" -> ParseFloat(s, 64)
      [] k = "bool" -> ParseBool(s)
      [] k = "string" -> [val |-> s, err |-> "nil"]

\* The sentinel of the kind whose coercion fails.
SentinelOf(k) ==
    CASE k \in SignedKinds \cup UnsignedKinds -> ErrInvalidIntValue
      [] k \in FloatKinds -> ErrInvalidFloatValue
      [] k = "bool" -> ErrInvalidBooleanValue
      [] OTHER -> ErrUnsupportedKind

\* A field of type t that holds the base value v under the pointer policy: a
\* pointer is nil exactly when its pointee is the zero value of the pointee's
\* type, and points to the pointee otherwise.
RECURSIVE Holding(_, _)
Holding(t, v) ==
    IF t.kind = "ptr"
    THEN LET inner == Holding(Elem(t), v)
         IN IF inner = ZeroValue(Elem(t)) THEN Nil ELSE <<inner>>
    ELSE v

\* The base value of what a field of type t holds, or the zero value of the
\* base type under a nil pointer.
RECURSIVE BaseValue(_, _)
BaseValue(t, f) ==
    IF t.kind = "ptr"
    THEN (IF f = Nil THEN ZeroValue(BaseOf(t)) ELSE BaseValue(Elem(t), f[1]))
    ELSE f

\* The value the base type's coercion produces from the slice of the last
\* call (the branch of the base kind, applied to a zero value).
Coerced == setFieldValue(BaseOf(ftype), ZeroValue(BaseOf(ftype)), slice)

HasOuterSpace(s) == s # <<>> /\ (s[1] = " " \/ s[Len(s)] = " ")

TrueTokens ==
    {<<"1">>, <<"t">>, <<"T">>, <<"T", "R", "U", "E">>, <<"t", "r", "u", "e">>,
     <<"T", "r", "u", "e">>}

FalseTokens ==
    {<<"0">>, <<"f">>, <<"F">>, <<"F", "A", "L", "S", "E">>,
     <<"f", "a", "l", "s", "e">>, <<"F", "a", "l", "s", "e">>}

\* C1: whenever the field's type, or the type a pointer field points to,
\* implements Unmarshaler, the call hands the raw slice to Unmarshal, whatever
\* the kind of the type, and returns what the decoder returns.
C1_CustomDecoderTakesPrecedence ==
    (calls > 0 /\ BaseOf(ftype).um) =>
        /\ invoked = <<slice>>
        /\ err = Unmarshal(BaseValue(ftype, prev), slice).err

\* C2: a field of an integer kind accepts a base-10 numeral exactly when its
\* value fits the declared width of the kind, and then holds that value; any
\* other slice fails with ErrInvalidIntValue.
C2_IntegerAtDeclaredWidth ==
    (calls > 0 /\ ftype.kind \in SignedKinds \cup UnsignedKinds /\ ~ftype.um) =>
        LET want == Denotes(ftype.kind, slice)
        IN IF want.err = "nil"
           THEN err = NoError /\ field = want.val
           ELSE err.sentinel = ErrInvalidIntValue

\* C3: a field of a type the README lists as supported (string, the integer
\* kinds with uintptr, the floats, bool, or a pointer to one of them) never
\* fails with ErrUnsupportedKind, and well-formed text for the type is
\* assigned without error.
C3_ReadmeTypesSupported ==
    (/\ calls > 0
     /\ Depth(ftype) <= 1
     /\ BaseOf(ftype).kind \in CaseKinds \cup {"uintptr"}
     /\ ~BaseOf(ftype).um) =>
        LET want == Denotes(BaseOf(ftype).kind, slice)
        IN /\ err.sentinel # ErrUnsupportedKind
           /\ want.err = "nil" => (err = NoError /\ field = Holding(ftype, want.val))

\* C4: after a successful call on a pointer field, at any nesting, the field
\* is nil exactly when the coerced pointee is the zero value of its type, and
\* points to the coerced value otherwise, whatever it held before.
C4_PointerNilIffZero ==
    (calls > 0 /\ ftype.kind = "ptr" /\ err = NoError) =>
        /\ field = Holding(ftype, Coerced.field)
        /\ field = Nil <=> Holding(Elem(ftype), Coerced.field) = ZeroValue(Elem(ftype))

\* C4 witness: a pointer to a pointer that was not nil before the call is nil
\* after a successful call.
C4_Witness ==
    /\ calls > 0 /\ Depth(ftype) = 2 /\ err = NoError
    /\ prev # Nil /\ prev[1] # Nil /\ field = Nil

\* C5: no slice is trimmed: a string field holds the slice as it is, and an
\* integer, float or bool field whose slice starts or ends with a space fails
\* with the sentinel of its kind.
C5_NoTrimming ==
    calls > 0 =>
        LET k == BaseOf(ftype).kind
        IN /\ k = "string" => (err = NoError /\ field = Holding(ftype, slice))
           /\ (k \in CaseKinds \ {"string"} /\ HasOuterSpace(slice)) =>
                (err.sentinel = SentinelOf(k) /\ BaseValue(ftype, field) = BaseValue(ftype, prev))

\* C5 witness: a string field holds a slice with its padding.
C5_Witness ==
    /\ calls > 0 /\ ftype.kind = "string"
    /\ slice = <<"1", " ", " ">> /\ field = slice /\ err = NoError

\* C6: a bool field accepts exactly the canonical tokens and holds the
\* matching value; every other slice fails with ErrInvalidBooleanValue and
\* the field keeps what it held.
C6_BoolTokens ==
    (calls > 0 /\ ftype.kind = "bool") =>
        IF slice \in TrueTokens THEN err = NoError /\ field = TRUE
        ELSE IF slice \in FalseTokens THEN err = NoError /\ field = FALSE
        ELSE err.sentinel = ErrInvalidBooleanValue /\ field = prev

\* C6 witness: a bool field that held TRUE rejects another casing.
C6_Witness ==
    /\ calls > 0 /\ ftype.kind = "bool" /\ prev = TRUE
    /\ slice = <<"t", "R", "U", "E">> /\ err.sentinel = ErrInvalidBooleanValue

C8_NoFailureSwallowed ==
    calls > 0 =>
        LET k == BaseOf(ftype).kind
        IN /\ err = NoError =>
                (Coerced.err = NoError /\ field = Holding(ftype, Coerced.field))
           /\ (err # NoError /\ invoked = <<>>) =>
                /\ err.sentinel = SentinelOf(k)
                /\ k \in CaseKinds => err.cause \in {ErrSyntax, ErrRange}
           /\ (invoked # <<>> /\ ~ParseDate(slice).ok) => err = ParseError

\* C8 witness: a range error below a pointer reaches the caller.
C8_Witness ==
    /\ calls > 0 /\ ftype.kind = "ptr" /\ BaseOf(ftype).kind = "int8"
    /\ err.sentinel = ErrInvalidIntValue /\ err.cause = ErrRange

C10_FailureLeavesField ==
    (calls > 0 /\ err # NoError /\ invoked = <<>>) => field = prev

====
